---- MODULE Spec2Model ----
(***************************************************************************)
(* Mood journal (main.py): the SQLite store (users, entries), the helpers  *)
(* that read and write it, and the page handlers that call them.           *)
(*                                                                         *)
(* Text values are TLA+ strings, except timestamps, which are sequences of *)
(* character codes so that ORDER BY can compare them byte by byte as       *)
(* SQLite's BINARY collation does.  A Python None / SQL NULL in a text     *)
(* column is the value None.  An optional row (fetchone) or user id is a   *)
(* sequence of length 0 (None) or 1.                                       *)
(***************************************************************************)
EXTENDS Integers, Sequences, FiniteSets, TLC

VARIABLES
    cols,      \* schema: table name -> its columns in order, <<>> = no table
    users,     \* rows of table users, in rowid order
    entries,   \* rows of table entries, in rowid order
    seq,       \* sqlite_sequence: table name -> last AUTOINCREMENT id
    booted,    \* the process has run init_db() and serves pages
    storage,   \* app.storage.user: session -> <<>> or <<user_id>>
    pending,   \* a register handler between its check and its INSERT
    regLog,    \* history: the <<email, password>> of every successful register
    lastOp     \* history: the last handler or call and what it showed

vars == <<cols, users, entries, seq, booted, storage, pending, regLog, lastOp>>

\* ---------------------------------------------------------------- bounds

\* entries table rows kept in the model
MaxEntries == 2

\* ---------------------------------------------------------------- values

None == "None"

Sessions == {"s1", "s2"}

Emails == {"", "a", "b"}

Passwords == {"", "p", "q"}

Range(s) == {s[i] : i \in 1..Len(s)}

\* "2024-01-01", "2024-01-02", "10:00", "09:00" as character codes
Date0101 == <<50, 48, 50, 52, 45, 48, 49, 45, 48, 49>>

Date0102 == <<50, 48, 50, 52, 45, 48, 49, 45, 48, 50>>

Time1000 == <<49, 48, 58, 48, 48>>

Time0900 == <<48, 57, 58, 48, 48>>

Space == <<32>>

mood_options == <<"happy", "good", "meh", "bad", "awful">>

weather_options == <<"sunny", "cloudy", "rain", "snow">>

energy_labels == <<"Exhausted", "Low", "Ok", "High", "Energized">>

sleep_options == <<"Excellent", "Good", "Fair", "Fragmented", "Poor">>

\* Contents of the new-entry form at the moment Save Entry is clicked.
FormInputs ==
    { [date |-> Date0101, time |-> Time1000, mood |-> mood_options[1],
       energy |-> 3, weather |-> None, sleep |-> None, notes |-> ""],
      [date |-> Date0102, time |-> Time0900, mood |-> mood_options[3],
       energy |-> 2, weather |-> weather_options[1],
       sleep |-> sleep_options[2], notes |-> "walk"] }

\* ---------------------------------------------------------------- schema

UsersCols == <<"id", "email", "password">>

EntriesCols ==
    <<"id", "user_id", "timestamp", "energy", "mood", "weather", "sleep", "notes">>

\* The entries table as created before the sleep column was introduced.
LegacyEntriesCols ==
    <<"id", "user_id", "timestamp", "energy", "mood", "weather", "notes">>

\* CREATE TABLE IF NOT EXISTS: an existing table is left as it is.
create_table_if_not_exists(c, table, columns) ==
    IF c[table] = <<>> THEN [c EXCEPT ![table] = columns] ELSE c

alter_add_dup(c, es, column) ==
    [ok |-> TRUE,
     cols |-> [c EXCEPT !["entries"] = Append(@, column)],
     entries |-> es]

\* ALTER TABLE entries ADD COLUMN: OperationalError (ok = FALSE) when the
\* column exists; otherwise the column is appended and reads NULL in every row.
alter_table_add_column(c, es, column) ==
    IF column \in Range(c["entries"])
    THEN [ok |-> FALSE, cols |-> c, entries |-> es]
    ELSE [ok |-> TRUE,
          cols |-> [c EXCEPT !["entries"] = Append(@, column)],
          entries |-> [i \in 1..Len(es) |->
                         [k \in DOMAIN es[i] \cup {column} |->
                            IF k \in DOMAIN es[i] THEN es[i][k] ELSE None]]]

\* init_db: both CREATE TABLE IF NOT EXISTS, then the ALTER inside try/except
\* sqlite3.OperationalError: pass.  raised = an exception leaves init_db.
init_db(c, es) ==
    LET c1 == create_table_if_not_exists(c, "users", UsersCols)
        c2 == create_table_if_not_exists(c1, "entries", EntriesCols)
        a  == alter_table_add_column(c2, es, "sleep")
    IN  [cols |-> a.cols, entries |-> a.entries, raised |-> FALSE]

\* ---------------------------------------------------------------- helpers

\* hashlib.sha256(password.encode()).hexdigest()
hash_pw(password) ==
    CASE password = "" ->
           "e3b0c44298fc1c149afbf4c8996fb92427ae41e4649b934ca495991b7852b855"
      [] password = "p" ->
           "148de9c5a7a44d19e56cd9ae1a554bf67847afb0c58f6e12fa29ac7ddfca9940"
      [] password = "q" ->
           "8e35c2cd3bf6641bdb0e2050b76932cbb2e6034a0ddacc1d9bea82a6ba57f7cf"

unique_never(us, email) == FALSE

\* email TEXT UNIQUE: the INSERT raises IntegrityError when a row has the email.
unique_violation(us, email) == \E i \in 1..Len(us) : us[i].email = email

create_user_replace(us, sq, email, password) ==
    LET kept == SelectSeq(us, LAMBDA u : u.email # email)
    IN  [ok |-> TRUE,
         users |-> Append(kept, [id |-> sq["users"] + 1, email |-> email,
                                 password |-> hash_pw(password)]),
         seq |-> [sq EXCEPT !["users"] = @ + 1]]

\* db_create_user: one INSERT; IntegrityError -> False, nothing written
\* (the failed statement's sqlite_sequence update is rolled back with it).
db_create_user(us, sq, email, password) ==
    IF unique_violation(us, email)
    THEN [ok |-> FALSE, users |-> us, seq |-> sq]
    ELSE [ok |-> TRUE,
          users |-> Append(us, [id |-> sq["users"] + 1, email |-> email,
                                password |-> hash_pw(password)]),
          seq |-> [sq EXCEPT !["users"] = @ + 1]]

verify_plain(us, email, password) ==
    LET hit == {i \in 1..Len(us) :
                  us[i].email = email /\ us[i].password = password}
    IN  IF hit = {} THEN <<>>
        ELSE <<us[CHOOSE i \in hit : \A j \in hit : i <= j].id>>

\* db_verify_user: SELECT id ... WHERE email = ? AND password = ?; fetchone;
\* row[0] if row else None.
db_verify_user(us, email, password) ==
    LET hit == {i \in 1..Len(us) :
                  us[i].email = email /\ us[i].password = hash_pw(password)}
    IN  IF hit = {} THEN <<>>
        ELSE <<us[CHOOSE i \in hit : \A j \in hit : i <= j].id>>

register_unchecked(us, sq, email, password) ==
    LET r == db_create_user(us, sq, email, password)
    IN  [users |-> r.users, seq |-> r.seq,
         notify |-> IF r.ok THEN "Account created! Please login."
                    ELSE "Email already exists",
         created |-> r.ok]

\* try_register: the empty-field check, then db_create_user.
try_register(us, sq, email, password) ==
    IF email = "" \/ password = ""
    THEN [users |-> us, seq |-> sq, notify |-> "Please fill all fields",
          created |-> FALSE]
    ELSE LET r == db_create_user(us, sq, email, password)
         IN  [users |-> r.users, seq |-> r.seq,
              notify |-> IF r.ok THEN "Account created! Please login."
                         ELSE "Email already exists",
              created |-> r.ok]

login_leaky(us, st, email, password) ==
    LET user_id == db_verify_user(us, email, password)
    IN  IF user_id # <<>> /\ user_id[1] # 0
        THEN [storage |-> user_id, notify |-> "", navigate |-> "/"]
        ELSE [storage |-> st,
              notify |-> IF \E i \in 1..Len(us) : us[i].email = email
                         THEN "Invalid email or password"
                         ELSE "No such account",
              navigate |-> ""]

\* try_login: db_verify_user; a truthy id is stored in app.storage.user and
\* the page navigates to '/', otherwise one fixed notification.
try_login(us, st, email, password) ==
    LET user_id == db_verify_user(us, email, password)
    IN  IF user_id # <<>> /\ user_id[1] # 0
        THEN [storage |-> user_id, notify |-> "", navigate |-> "/"]
        ELSE [storage |-> st, notify |-> "Invalid email or password",
              navigate |-> ""]

add_entry_replace(es, sq, user_id, dt_str, mood, energy, weather, sleep, notes) ==
    LET row == [id |-> sq["entries"] + 1, user_id |-> user_id,
                timestamp |-> dt_str, mood |-> mood, energy |-> energy,
                weather |-> weather, sleep |-> sleep, notes |-> notes]
        kept == SelectSeq(es, LAMBDA r :
                    ~(r.user_id = user_id /\ r.timestamp = dt_str))
    IN  [entries |-> Append(kept, row),
         seq |-> [sq EXCEPT !["entries"] = @ + 1]]

\* db_add_entry: one INSERT naming every column but id; id is AUTOINCREMENT.
db_add_entry(es, sq, user_id, dt_str, mood, energy, weather, sleep, notes) ==
    LET row == [id |-> sq["entries"] + 1, user_id |-> user_id,
                timestamp |-> dt_str, mood |-> mood, energy |-> energy,
                weather |-> weather, sleep |-> sleep, notes |-> notes]
    IN  [entries |-> Append(es, row),
         seq |-> [sq EXCEPT !["entries"] = @ + 1]]

\* BINARY collation (memcmp, then length): -1, 0 or 1.
RECURSIVE text_cmp(_, _)
text_cmp(a, b) ==
    IF a = <<>> /\ b = <<>> THEN 0
    ELSE IF a = <<>> THEN 0 - 1
    ELSE IF b = <<>> THEN 1
    ELSE IF Head(a) < Head(b) THEN 0 - 1
    ELSE IF Head(a) > Head(b) THEN 1
    ELSE text_cmp(Tail(a), Tail(b))

where_any_user(r, user_id) == TRUE

\* WHERE user_id = ?
where_user_id(r, user_id) == r.user_id = user_id

sorts_before_asc(a, b, tie) ==
    \/ text_cmp(a.timestamp, b.timestamp) < 0
    \/ /\ text_cmp(a.timestamp, b.timestamp) = 0
       /\ IF tie = "rowid" THEN a.id < b.id ELSE a.id > b.id

\* ORDER BY timestamp DESC: a is returned before b.  Rows with equal
\* timestamps come in an order SQL leaves open: by rowid or against it.
sorts_before(a, b, tie) ==
    \/ text_cmp(a.timestamp, b.timestamp) > 0
    \/ /\ text_cmp(a.timestamp, b.timestamp) = 0
       /\ IF tie = "rowid" THEN a.id < b.id ELSE a.id > b.id

RECURSIVE insert_row(_, _, _)
insert_row(r, sorted, tie) ==
    IF sorted = <<>> THEN <<r>>
    ELSE IF sorts_before(r, Head(sorted), tie) THEN <<r>> \o sorted
    ELSE <<Head(sorted)>> \o insert_row(r, Tail(sorted), tie)

RECURSIVE order_by(_, _)
order_by(rows, tie) ==
    IF rows = <<>> THEN <<>>
    ELSE insert_row(Head(rows), order_by(Tail(rows), tie), tie)

TieOrders == {"rowid", "reverse"}

\* db_get_entries: SELECT * FROM entries WHERE user_id = ? ORDER BY timestamp
\* DESC, each row as a dict.
db_get_entries(es, user_id, tie) ==
    order_by(SelectSeq(es, LAMBDA r : where_user_id(r, user_id)), tie)

\* save_entry: the form's date and time joined by a space, the energy label
\* of the slider index, then db_add_entry.
save_entry(es, sq, user_id, form) ==
    LET dt_str == form.date \o Space \o form.time
        energy_text == energy_labels[form.energy + 1]
    IN  db_add_entry(es, sq, user_id, dt_str, form.mood, energy_text,
                     form.weather, form.sleep, form.notes)

\* ---------------------------------------------------------------- states

\* A store written by the release that had no sleep column: one account
\* (a / p) and one entry.
LegacyUsers == <<[id |-> 1, email |-> "a", password |-> hash_pw("p")]>>

LegacyEntries ==
    <<[id |-> 1, user_id |-> 1, timestamp |-> Date0101 \o Space \o Time0900,
       energy |-> "Low", mood |-> "bad", weather |-> "rain", notes |-> "old"]>>

\* Before the module is imported: no database file, or a legacy one.
Init ==
    /\ \/ /\ cols = [users |-> <<>>, entries |-> <<>>]
          /\ users = <<>>
          /\ entries = <<>>
          /\ seq = [users |-> 0, entries |-> 0]
       \/ /\ cols = [users |-> UsersCols, entries |-> LegacyEntriesCols]
          /\ users = LegacyUsers
          /\ entries = LegacyEntries
          /\ seq = [users |-> 1, entries |-> 1]
    /\ booted = FALSE
    /\ storage = [s \in Sessions |-> <<>>]
    /\ pending = [s \in Sessions |-> <<>>]
    /\ regLog = <<>>
    /\ lastOp = [op |-> "none"]

\* Process start: init_db() at import, then ui.run.  Handlers that were
\* running in the previous process are gone; app.storage.user is kept.
Boot ==
    LET r == init_db(cols, entries)
    IN  /\ cols' = r.cols
        /\ entries' = r.entries
        /\ booted' = ~r.raised
        /\ pending' = [s \in Sessions |-> <<>>]
        /\ lastOp' = [op |-> "init_db", raised |-> r.raised,
                      had_sleep |-> "sleep" \in Range(cols["entries"]),
                      had_table |-> cols["entries"] # <<>>]
        /\ UNCHANGED <<users, seq, storage, regLog>>

\* Register button: try_register as one handler.
TryRegister(s, email, password) ==
    LET r == try_register(users, seq, email, password)
    IN  /\ booted
        /\ pending[s] = <<>>
        /\ users' = r.users
        /\ seq' = r.seq
        /\ regLog' = IF r.created THEN Append(regLog, <<email, password>>)
                     ELSE regLog
        /\ lastOp' = [op |-> "register", email |-> email,
                      password |-> password, notify |-> r.notify]
        /\ UNCHANGED <<cols, entries, booted, storage, pending>>

\* Log in button: try_login.
TryLogin(s, email, password) ==
    LET r == try_login(users, storage[s], email, password)
    IN  /\ booted
        /\ pending[s] = <<>>
        /\ storage' = [storage EXCEPT ![s] = r.storage]
        /\ lastOp' = [op |-> "login", email |-> email, password |-> password,
                      user_id |-> db_verify_user(users, email, password),
                      notify |-> r.notify, navigate |-> r.navigate]
        /\ UNCHANGED <<cols, users, entries, seq, booted, pending, regLog>>

\* Logout button: app.storage.user.clear().
Logout(s) ==
    /\ booted
    /\ pending[s] = <<>>
    /\ storage[s] # <<>>
    /\ storage' = [storage EXCEPT ![s] = <<>>]
    /\ lastOp' = [op |-> "logout"]
    /\ UNCHANGED <<cols, users, entries, seq, booted, pending, regLog>>

\* Page '/': redirect when not authenticated, else the user's entries.
Home(s) ==
    /\ booted
    /\ pending[s] = <<>>
    /\ \/ /\ storage[s] = <<>>
          /\ lastOp' = [op |-> "home", user_id |-> <<>>, shown |-> <<>>,
                        navigate |-> "/login"]
       \/ /\ storage[s] # <<>>
          /\ \E tie \in TieOrders :
               lastOp' = [op |-> "home", user_id |-> storage[s],
                          shown |-> db_get_entries(entries, storage[s][1], tie),
                          navigate |-> ""]
    /\ UNCHANGED <<cols, users, entries, seq, booted, storage, pending, regLog>>

\* Page '/new_entry' and its Save Entry button: save_entry with the user_id
\* the page read from app.storage.user.  Opening the page and the click are
\* one step: the session's login does not change while the form is open.
SaveEntry(s, form) ==
    LET r == save_entry(entries, seq, storage[s][1], form)
    IN  /\ booted
        /\ pending[s] = <<>>
        /\ storage[s] # <<>>
        /\ Len(entries) < MaxEntries
        /\ entries' = r.entries
        /\ seq' = r.seq
        /\ lastOp' = [op |-> "save_entry", user_id |-> storage[s],
                      form |-> form]
        /\ UNCHANGED <<cols, users, booted, storage, pending, regLog>>

\* try_register, statement by statement: the empty-field check ...
RegisterCheck(s, email, password) ==
    /\ booted
    /\ pending[s] = <<>>
    /\ IF email = "" \/ password = ""
       THEN /\ lastOp' = [op |-> "register", email |-> email,
                          password |-> password,
                          notify |-> "Please fill all fields"]
            /\ UNCHANGED pending
       ELSE /\ pending' = [pending EXCEPT ![s] = <<email, password>>]
            /\ lastOp' = [op |-> "register_check"]
    /\ UNCHANGED <<cols, users, entries, seq, booted, storage, regLog>>

\* ... and the INSERT of db_create_user with its notification.
RegisterInsert(s) ==
    /\ booted
    /\ pending[s] # <<>>
    /\ LET email == pending[s][1]
           password == pending[s][2]
           r == db_create_user(users, seq, email, password)
       IN  /\ users' = r.users
           /\ seq' = r.seq
           /\ regLog' = IF r.ok THEN Append(regLog, <<email, password>>)
                        ELSE regLog
           /\ lastOp' = [op |-> "register", email |-> email,
                         password |-> password,
                         notify |-> IF r.ok THEN "Account created! Please login."
                                    ELSE "Email already exists"]
    /\ pending' = [pending EXCEPT ![s] = <<>>]
    /\ UNCHANGED <<cols, entries, booted, storage>>

\* The storage functions called directly, with any arguments.
StoreUserIds == {1, 2}

StoreMoods == {"", None, "meh"}

StoreEnergies == {"", None, "Ok"}

StoreAddEntry(user_id, date, mood, energy) ==
    LET r == db_add_entry(entries, seq, user_id, date \o Space \o Time1000,
                          mood, energy, None, None, "")
    IN  /\ booted
        /\ Len(entries) < MaxEntries
        /\ entries' = r.entries
        /\ seq' = r.seq
        /\ lastOp' = [op |-> "db_add_entry", user_id |-> <<user_id>>,
                      mood |-> mood, energy |-> energy]
        /\ UNCHANGED <<cols, users, booted, storage, pending, regLog>>

StoreGetEntries(user_id) ==
    /\ booted
    /\ \E tie \in TieOrders :
         lastOp' = [op |-> "db_get_entries", user_id |-> <<user_id>>,
                    shown |-> db_get_entries(entries, user_id, tie)]
    /\ UNCHANGED <<cols, users, entries, seq, booted, storage, pending, regLog>>

Next ==
    \/ Boot
    \/ \E s \in Sessions, e \in Emails, p \in Passwords : TryRegister(s, e, p)
    \/ \E s \in Sessions, e \in Emails, p \in Passwords : TryLogin(s, e, p)
    \/ \E s \in Sessions : Logout(s)
    \/ \E s \in Sessions : Home(s)
    \/ \E s \in Sessions, f \in FormInputs : SaveEntry(s, f)

Spec == Init /\ [][Next]_vars

NextRace ==
    \/ Boot
    \/ \E s \in Sessions, e \in Emails, p \in Passwords : RegisterCheck(s, e, p)
    \/ \E s \in Sessions : RegisterInsert(s)
    \/ \E s \in Sessions, e \in Emails, p \in Passwords : TryLogin(s, e, p)

SpecRace == Init /\ [][NextRace]_vars

NextStore ==
    \/ Boot
    \/ \E u \in StoreUserIds, d \in {Date0101, Date0102},
          m \in StoreMoods, e \in StoreEnergies : StoreAddEntry(u, d, m, e)
    \/ \E u \in StoreUserIds : StoreGetEntries(u)

SpecStore == Init /\ [][NextStore]_vars

\* ---------------------------------------------------------------- claims

HasAccount(us, email) == \E i \in 1..Len(us) : us[i].email = email

AccountsOf(us, email) == {i \in 1..Len(us) : us[i].email = email}

Successes(email) == {k \in 1..Len(regLog) : regLog[k][1] = email}

Created == "Account created! Please login."

Taken == "Email already exists"

Invalid == "Please fill all fields"

\* C1: after register(e, p1) has succeeded, a register for e changes no
\* account and no authenticate result for e, and when it reaches
\* db_create_user (both fields filled in, the password equal to p1 or not)
\* it is answered "Email already exists"; the stored credential stays the
\* hash of p1, so authenticate(e, p1) succeeds and authenticate(e, p2),
\* p2 # p1, fails.
C1_SecondRegisterRefused ==
    /\ [](\A k \in 1..Len(regLog) :
            LET e == regLog[k][1]
                p1 == regLog[k][2]
            IN  /\ \A i \in AccountsOf(users, e) :
                       users[i].password = hash_pw(p1)
                /\ db_verify_user(users, e, p1) # <<>>
                /\ \A p2 \in Passwords \ {p1} :
                       db_verify_user(users, e, p2) = <<>>)
    /\ [][(lastOp'.op = "register" /\ HasAccount(users, lastOp'.email)) =>
            /\ lastOp'.notify # Created
            /\ lastOp'.password # "" => lastOp'.notify = Taken
            /\ users' = users
            /\ \A p \in Passwords :
                 db_verify_user(users', lastOp'.email, p)
                   = db_verify_user(users, lastOp'.email, p)]_vars

\* A second register for a registered email, with another password, was
\* refused.
C1_Witness ==
    /\ lastOp.op = "register"
    /\ lastOp.notify = Taken
    /\ \E k \in 1..Len(regLog) :
         regLog[k][1] = lastOp.email /\ regLog[k][2] # lastOp.password

\* C2: however the statements of concurrent register handlers interleave,
\* an email has at most one account and at most one register succeeded for
\* it; every account was created by exactly one successful register or was
\* in the database file before the process started; a register that reaches
\* db_create_user either is that one success or is answered "Email already
\* exists" while the one account exists.
C2_OneWinner ==
    /\ \A e \in Emails :
         /\ Cardinality(AccountsOf(users, e)) <= 1
         /\ Cardinality(Successes(e)) <= 1
         /\ \/ Cardinality(AccountsOf(users, e)) = Cardinality(Successes(e))
            \/ /\ Successes(e) = {}
               /\ \A i \in AccountsOf(users, e) : users[i] \in Range(LegacyUsers)
    /\ (lastOp.op = "register" /\ lastOp.notify # Invalid) =>
         /\ Cardinality(AccountsOf(users, lastOp.email)) = 1
         /\ lastOp.notify = Created =>
              Cardinality(Successes(lastOp.email)) = 1
         /\ lastOp.notify \in {Created, Taken}

\* One handler has just created the account while another session's handler,
\* past its own check, is about to INSERT the same email.
C2_Witness ==
    /\ lastOp.op = "register"
    /\ lastOp.notify = Created
    /\ \E s \in Sessions :
         /\ pending[s] # <<>>
         /\ pending[s][1] = lastOp.email
         /\ pending[s][2] # lastOp.password

\* C3: every entry the home page lists for user x has user_id x, whatever
\* entries other users saved in between.
C3_Isolation ==
    /\ (lastOp.op = "home" /\ lastOp.user_id # <<>>) =>
         \A j \in 1..Len(lastOp.shown) :
            lastOp.shown[j].user_id = lastOp.user_id[1]
    /\ \A u \in 1..Len(users), tie \in TieOrders :
         \A r \in Range(db_get_entries(entries, users[u].id, tie)) :
            r.user_id = users[u].id

\* A user's list was shown while the store also holds another user's entry.
C3_Witness ==
    /\ lastOp.op = "home"
    /\ lastOp.shown # <<>>
    /\ \E i \in 1..Len(entries) : entries[i].user_id # lastOp.user_id[1]

\* C4: once register(e, p) succeeded (e, p non-empty), authenticate(e, p)
\* returns an id, the login handler stores that id, and no later operation
\* changes the id authenticate returns for a pair it accepts.
C4_RegisterThenAuthenticate ==
    /\ [](\A k \in 1..Len(regLog) :
            /\ regLog[k][1] # "" /\ regLog[k][2] # ""
            /\ db_verify_user(users, regLog[k][1], regLog[k][2]) # <<>>)
    /\ []((lastOp.op = "login"
             /\ <<lastOp.email, lastOp.password>> \in Range(regLog)) =>
            /\ lastOp.user_id # <<>>
            /\ lastOp.navigate = "/"
            /\ \E s \in Sessions : storage[s] = lastOp.user_id
            /\ \A i \in AccountsOf(users, lastOp.email) :
                   lastOp.user_id = <<users[i].id>>)
    /\ [][\A e \in Emails, p \in Passwords :
            db_verify_user(users, e, p) # <<>> =>
              db_verify_user(users', e, p) = db_verify_user(users, e, p)]_vars

\* A login with a registered pair, after a second account and an entry were
\* added.
C4_Witness ==
    /\ lastOp.op = "login"
    /\ <<lastOp.email, lastOp.password>> \in Range(regLog)
    /\ Len(users) > 1
    /\ entries # <<>>

\* C5: a failed login shows the same thing (no id, "Invalid email or
\* password", no navigation, session unchanged) whether the email is
\* registered or not; and no login, failed or not, changes the store.
C5_LoginUniformAndReadOnly ==
    /\ [](lastOp.op = "login" =>
            IF lastOp.user_id = <<>>
            THEN lastOp.notify = "Invalid email or password"
                   /\ lastOp.navigate = ""
            ELSE lastOp.notify = "" /\ lastOp.navigate = "/")
    /\ [][lastOp'.op = "login" =>
            /\ users' = users /\ entries' = entries
            /\ cols' = cols /\ seq' = seq
            /\ lastOp'.user_id = <<>> => storage' = storage]_vars

\* A login that failed on the password of a registered email.
C5_Witness ==
    /\ lastOp.op = "login"
    /\ lastOp.user_id = <<>>
    /\ HasAccount(users, lastOp.email)

\* C6: the home page's list is exactly the stored entries of the user, each
\* once, and each listed entry's timestamp is >= the next one's.
C6_ListSortedComplete ==
    (lastOp.op = "home" /\ lastOp.user_id # <<>>) =>
      LET out == lastOp.shown
          mine == {i \in 1..Len(entries) :
                     entries[i].user_id = lastOp.user_id[1]}
      IN  /\ Len(out) = Cardinality(mine)
          /\ \A i \in mine :
               Cardinality({j \in 1..Len(out) : out[j] = entries[i]}) = 1
          /\ \A j \in 1..Len(out) : \E i \in mine : out[j] = entries[i]
          /\ \A j \in 1..(Len(out) - 1) :
               text_cmp(out[j].timestamp, out[j + 1].timestamp) >= 0

\* A list of two entries where the later-saved one has the greater
\* timestamp and is shown first.
C6_Witness ==
    /\ lastOp.op = "home"
    /\ Len(lastOp.shown) > 1
    /\ lastOp.shown[1].id > lastOp.shown[2].id
    /\ text_cmp(lastOp.shown[1].timestamp, lastOp.shown[2].timestamp) > 0

\* C7: a register with an empty email or password is answered "Please fill
\* all fields" and writes nothing; no account has an empty email or the
\* hash of the empty password.
C7_EmptyRejected ==
    /\ [](\A i \in 1..Len(users) :
            users[i].email # "" /\ users[i].password # hash_pw(""))
    /\ [][(lastOp'.op = "register"
             /\ (lastOp'.email = "" \/ lastOp'.password = "")) =>
            /\ lastOp'.notify = Invalid
            /\ users' = users /\ seq' = seq /\ regLog' = regLog]_vars

\* A register with an empty field was rejected on a store that has accounts.
C7_Witness ==
    /\ lastOp.op = "register"
    /\ lastOp.notify = Invalid
    /\ users # <<>>

\* C8: no stored entry has an empty or absent mood or energy.
C8_MoodEnergyNonEmpty ==
    \A i \in 1..Len(entries) :
       /\ entries[i].mood \notin {"", None}
       /\ entries[i].energy \notin {"", None}

\* C9: a save adds exactly one entry, with an id no entry had, and leaves
\* every earlier entry and every account as it was, also when the timestamp
\* is already used by the same user; register, login, the home page and
\* logout change or remove no entry.
C9_AppendOnly ==
    /\ [][lastOp'.op = "save_entry" =>
            /\ Len(entries') = Len(entries) + 1
            /\ \A i \in 1..Len(entries) : entries'[i] = entries[i]
            /\ \A i \in 1..Len(entries) :
                 entries'[Len(entries')].id # entries[i].id
            /\ entries'[Len(entries')].user_id = lastOp'.user_id[1]
            /\ users' = users]_vars
    /\ [][lastOp'.op \in {"register", "login", "home", "logout"} =>
            entries' = entries]_vars

\* An entry was saved with the user and timestamp of an earlier entry, and
\* both are stored.
C9_Witness ==
    /\ lastOp.op = "save_entry"
    /\ \E i \in 1..Len(entries) :
         /\ i < Len(entries)
         /\ entries[i].user_id = entries[Len(entries)].user_id
         /\ entries[i].timestamp = entries[Len(entries)].timestamp

SleepCount == Cardinality({i \in 1..Len(cols["entries"]) :
                             cols["entries"][i] = "sleep"})

\* C10: init_db never raises; on a store that has the sleep column it
\* changes no account, entry or column; on an entries table without the
\* column it appends the column and keeps every value of every row; after
\* it the sleep column exists exactly once.
C10_InitDbIdempotent ==
    /\ [](booted => SleepCount = 1)
    /\ [][lastOp'.op = "init_db" =>
            /\ ~lastOp'.raised
            /\ users' = users /\ seq' = seq
            /\ Len(entries') = Len(entries)
            /\ \A i \in 1..Len(entries) : \A k \in DOMAIN entries[i] :
                 entries'[i][k] = entries[i][k]
            /\ lastOp'.had_sleep => (cols' = cols /\ entries' = entries)
            /\ (lastOp'.had_table /\ ~lastOp'.had_sleep) =>
                 cols' = [cols EXCEPT !["entries"] = Append(@, "sleep")]]_vars

\* init_db ran again on a store that was migrated from the legacy schema
\* and holds accounts and entries.
C10_Witness ==
    /\ lastOp.op = "init_db"
    /\ lastOp.had_sleep
    /\ cols["entries"] = Append(LegacyEntriesCols, "sleep")
    /\ users # <<>>
    /\ Len(entries) > 1

====
